---- MODULE Spec2Model ----
(***************************************************************************)
(* Model of parallel-srt-translator.py: parse_srt, translate_block (one    *)
(* job of the process pool), parallel_translate_srt (pool, result map,     *)
(* reassembly) and SubtitleBlock.__str__; and of SilentGapLocator.py:      *)
(* parse_srt_timestamps and calculate_gaps.                                *)
(*                                                                         *)
(* Text is modelled as a sequence of one-character strings, so that        *)
(* rstrip, strip, int(), str(), join and readlines are computed as the     *)
(* code computes them.                                                     *)
(***************************************************************************)
EXTENDS Integers, Sequences, FiniteSets, TLC

VARIABLES
    content,            \* infile.readlines(): the lines of the input file
    retries,            \* parameter retries of parallel_translate_srt
    num_processes,      \* parameter num_processes (after the cpu_count() default)
    provider,           \* what translator.translate answers when it answers
    pc,                 \* position of the main process
    subtitle_blocks,    \* parse_srt(content)
    status,             \* per task: queued, running, finished (result in flight), received
    lineNo,             \* per task: position of the for loop over block.content
    attempt,            \* per task: value of the loop variable attempt for the current line
    translated_lines,   \* per task: the list translated_lines
    result,             \* per task: the block the job returned
    calls,              \* per task, per line: number of translator.translate calls
    sleeps,             \* per task, per line: number of time.sleep(delay) calls
    outcome,            \* per task, per line: how the line was settled
    outqueue,           \* results returned by workers, not yet seen by the main loop
    translated_blocks,  \* the dict index -> block of the main process
    received,           \* the task whose result each main-loop iteration received
    loop_i,             \* loop variable i of the reassembly loop
    outfile,            \* the strings written to the output file, in order
    written,            \* the indices whose block was written, in order
    log,                \* the logger.info records emitted
    srt_text,           \* SilentGapLocator: argument of parse_srt_timestamps
    threshold_seconds,  \* SilentGapLocator: parameter of calculate_gaps
    gpc,                \* SilentGapLocator: position of the gap analysis
    timestamps,         \* SilentGapLocator: the list of (start, end) pairs
    gap_i,              \* SilentGapLocator: loop variable i of calculate_gaps
    gaps                \* SilentGapLocator: the list gaps of calculate_gaps

\* The variables of the translation run and those of the gap analysis.
runvars == <<content, retries, num_processes, provider, pc, subtitle_blocks, status,
             lineNo, attempt, translated_lines, result, calls, sleeps, outcome,
             outqueue, translated_blocks, received, loop_i, outfile, written, log>>
gapvars == <<srt_text, threshold_seconds, gpc, timestamps, gap_i, gaps>>

vars == <<runvars, gapvars>>

-----------------------------------------------------------------------------
(* Bounds of the model *)

MaxBlocks == 3        \* entries of a generated document of several entries
MaxProcs == 2         \* largest value of the parameter num_processes
MaxLines == 3         \* content lines of a generated one-block document
MaxRetries == 2       \* largest value of retries for a one-block document
MaxDocLines == 4      \* lines of a generated free-form document
MaxEntries == 3       \* entries of a document given to the gap analysis

\* Indices of the entries of a generated document: a first index 0, and a
\* hole at 2.
Indices == {0, 1, 3}

\* Values of retries for a document of several entries; longer retry loops
\* are run on the one-block documents.
RunRetries == {0, 1}

(* Program constants *)

ProgressEvery == 100  \* progress is logged every 100 completions
DefaultThreshold == 10  \* threshold_seconds=10
MicrosPerSecond == 1000000  \* resolution of %f and of timedelta

-----------------------------------------------------------------------------
(* Characters and strings *)

NL == "\n"
SP == " "
Digits == <<"0", "1", "2", "3", "4", "5", "6", "7", "8", "9">>
DigitSet == {Digits[k] : k \in 1..10}
Whitespace == {SP, NL}

DigitVal(c) == (CHOOSE k \in 1..10 : Digits[k] = c) - 1

RECURSIVE Join(_)
\* ''.join(strs)
Join(strs) == IF strs = <<>> THEN <<>> ELSE Head(strs) \o Join(Tail(strs))

RECURSIVE RStripNL(_)
\* line.rstrip('\n')
RStripNL(s) ==
    IF s # <<>> /\ s[Len(s)] = NL THEN RStripNL(SubSeq(s, 1, Len(s) - 1)) ELSE s

RECURSIVE LStrip(_)
LStrip(s) == IF s # <<>> /\ Head(s) \in Whitespace THEN LStrip(Tail(s)) ELSE s

RECURSIVE RStrip(_)
RStrip(s) ==
    IF s # <<>> /\ s[Len(s)] \in Whitespace THEN RStrip(SubSeq(s, 1, Len(s) - 1)) ELSE s

\* line.strip()
Strip(s) == RStrip(LStrip(s))

\* re.match(r'^\d+$', line)
IsIndexLine(line) == line # <<>> /\ \A k \in 1..Len(line) : line[k] \in DigitSet

\* '-->' in line
HasArrow(line) ==
    \E k \in 1..(Len(line) - 2) :
        line[k] = "-" /\ line[k + 1] = "-" /\ line[k + 2] = ">"

RECURSIVE ParseInt(_)
\* int(line), for a line of decimal digits
ParseInt(s) ==
    IF s = <<>> THEN 0
    ELSE 10 * ParseInt(SubSeq(s, 1, Len(s) - 1)) + DigitVal(s[Len(s)])

RECURSIVE IntToStr(_)
\* str(n), for n >= 0
IntToStr(n) ==
    IF n < 10 THEN <<Digits[n + 1]>>
    ELSE IntToStr(n \div 10) \o <<Digits[(n % 10) + 1]>>

RECURSIVE ReadLines(_, _)
\* readlines() of a file holding text: every line keeps its terminator
ReadLines(text, cur) ==
    IF text = <<>> THEN (IF cur = <<>> THEN <<>> ELSE <<cur>>)
    ELSE IF Head(text) = NL THEN <<cur \o <<NL>>>> \o ReadLines(Tail(text), <<>>)
    ELSE ReadLines(Tail(text), cur \o <<Head(text)>>)

-----------------------------------------------------------------------------
(* SubtitleBlock *)

SubtitleBlock(index, timestamp, cont) ==
    [index |-> index, timestamp |-> timestamp, content |-> cont]

\* SubtitleBlock.__str__
BlockStr(b) ==
    IntToStr(b.index) \o <<NL>> \o b.timestamp \o <<NL>> \o Join(b.content) \o <<NL>>

-----------------------------------------------------------------------------
(* parse_srt.  The accumulator is (blocks, current_block, current_content);  *)
(* current_block is <<>> for None and <<b>> for an open block.               *)

\* The time-range line is also kept as a content line.
ParseLineKeepsTimeRange(acc, rawline) ==
    LET line == RStripNL(rawline) IN
    IF IsIndexLine(line) THEN
        [blocks |-> IF acc.current_block # <<>>
                    THEN Append(acc.blocks,
                                [acc.current_block[1] EXCEPT !.content = acc.current_content])
                    ELSE acc.blocks,
         current_block |-> <<SubtitleBlock(ParseInt(line), <<>>, <<>>)>>,
         current_content |-> <<>>]
    ELSE IF acc.current_block # <<>>
         THEN [current_block |->
                   IF HasArrow(line)
                   THEN <<[acc.current_block[1] EXCEPT !.timestamp = line]>>
                   ELSE acc.current_block,
               current_content |-> Append(acc.current_content, line \o <<NL>>),
               blocks |-> acc.blocks]
         ELSE acc

ParseLine(acc, rawline) ==
    LET line == RStripNL(rawline) IN
    IF IsIndexLine(line) THEN
        [blocks |-> IF acc.current_block # <<>>
                    THEN Append(acc.blocks,
                                [acc.current_block[1] EXCEPT !.content = acc.current_content])
                    ELSE acc.blocks,
         current_block |-> <<SubtitleBlock(ParseInt(line), <<>>, <<>>)>>,
         current_content |-> <<>>]
    ELSE IF HasArrow(line) THEN
        IF acc.current_block # <<>>
        THEN [acc EXCEPT !.current_block = <<[acc.current_block[1] EXCEPT !.timestamp = line]>>]
        ELSE acc
    ELSE
        IF acc.current_block # <<>>
        THEN [acc EXCEPT !.current_content = Append(acc.current_content, line \o <<NL>>)]
        ELSE acc

RECURSIVE ParseLoop(_, _)
ParseLoop(acc, lines) ==
    \* for line in file_content: the accumulator after the line and the rest
    \* of the lines are bound to their values before the next iteration
    IF lines = <<>> THEN acc
    ELSE CHOOSE r \in {ParseLoop(a, l) : a \in {ParseLine(acc, Head(lines))},
                                         l \in {Tail(lines)}} : TRUE

parse_srt(file_content) ==
    LET acc == ParseLoop([blocks |-> <<>>, current_block |-> <<>>, current_content |-> <<>>],
                         file_content)
    IN IF acc.current_block # <<>>
       THEN Append(acc.blocks, [acc.current_block[1] EXCEPT !.content = acc.current_content])
       ELSE acc.blocks

-----------------------------------------------------------------------------
(* The translation provider: an external collaborator.  A call either      *)
(* raises or answers; the answer is a function of the text sent.           *)

Providers == {"stub", "identity"}

\* translator.translate(line), when it answers
Translate(line) == IF provider = "identity" THEN line ELSE <<"T">> \o line

-----------------------------------------------------------------------------
(* Input documents *)

TimeRange == <<"0", SP, "-", "-", ">", SP, "1">>
Letters == <<"a", "b", "c", "d">>

\* One entry of a document: index line, time-range line, one content line.
Entry(n, k) == <<IntToStr(n) \o <<NL>>, TimeRange \o <<NL>>, <<Letters[k], NL>>>>

RECURSIVE EntriesDoc(_, _)
\* The document whose k-th entry has index idx[k] and the k-th letter as content.
EntriesDoc(idx, k) ==
    IF k > Len(idx) THEN <<>> ELSE Entry(idx[k], k) \o EntriesDoc(idx, k + 1)

IndexSeqs == UNION {[1..n -> Indices] : n \in 0..MaxBlocks}

\* Documents of up to MaxBlocks entries: indices may start at 0, repeat, leave
\* holes and come in any order.
RunDocuments == {EntriesDoc(idx, 1) : idx \in IndexSeqs}

\* Content lines of the one-block documents.
ContentLines == {<<"a", NL>>, <<NL>>, <<SP, "2", SP, NL>>}
ContentSeqs == UNION {[1..n -> ContentLines] : n \in 0..MaxLines}

\* Documents of one block with every content of up to MaxLines lines: under
\* index 0 with a time-range line, and under index 01 without one.
BlockDocuments ==
    {h \o c : h \in {<<<<"0", NL>>, TimeRange \o <<NL>>>>, <<<<"0", "1", NL>>>>},
              c \in ContentSeqs}

\* Lines of the free-form documents: two index lines, a time-range line, a
\* text line, an empty line, and digits between spaces without a line
\* terminator.
FreeLines ==
    {<<"0", NL>>, <<"1", "2", NL>>, TimeRange \o <<NL>>, <<"a", NL>>, <<NL>>,
     <<SP, "2", SP>>}

\* Documents of up to MaxDocLines lines in any arrangement; only the last
\* line of a file can lack its terminator.
FreeDocuments ==
    {d \in UNION {[1..n -> FreeLines] : n \in 0..MaxDocLines} :
        \A k \in 1..(Len(d) - 1) : d[k][Len(d[k])] = NL}

-----------------------------------------------------------------------------
(* State of a run *)

Tasks == 1..Len(subtitle_blocks)
total_blocks == Len(subtitle_blocks)

Running == {t \in Tasks : status[t] = "running"}
Queued == {t \in Tasks : status[t] = "queued"}

\* The line the job of task t is at, as translate_block sees it: line.strip()
CurLine(t) == Strip(subtitle_blocks[t].content[lineNo[t]])
AtLine(t) == status[t] = "running" /\ lineNo[t] <= Len(subtitle_blocks[t].content)

LogRec(msg, n, total) == [msg |-> msg, n |-> n, total |-> total]

\* A run is given either a document of several entries, any pool size and
\* the stub provider, or a one-block document with varied content lines,
\* either provider and a pool of one process.
\* The gap analysis is not in use.
GapIdle ==
    /\ srt_text = <<>>
    /\ threshold_seconds = DefaultThreshold
    /\ gpc = "idle"
    /\ timestamps = <<>>
    /\ gap_i = 0
    /\ gaps = <<>>

\* Nothing has been parsed, started, received or written yet.
Idle ==
    /\ pc = "start"
    /\ subtitle_blocks = <<>>
    /\ status = <<>>
    /\ lineNo = <<>>
    /\ attempt = <<>>
    /\ translated_lines = <<>>
    /\ result = <<>>
    /\ calls = <<>>
    /\ sleeps = <<>>
    /\ outcome = <<>>
    /\ outqueue = <<>>
    /\ translated_blocks = [k \in {} |-> 0]
    /\ received = <<>>
    /\ loop_i = 0
    /\ outfile = <<>>
    /\ written = <<>>
    /\ log = <<>>

Init ==
    /\ \/ /\ content \in RunDocuments
          /\ num_processes \in 1..MaxProcs
          /\ provider = "stub"
          /\ retries \in RunRetries
       \/ /\ content \in BlockDocuments
          /\ num_processes = 1
          /\ provider \in Providers
          /\ retries \in 0..MaxRetries
    /\ Idle
    /\ GapIdle

\* A run over a free-form document, to see every path of the parser.
InitParse ==
    /\ content \in FreeDocuments
    /\ num_processes = 1
    /\ provider = "stub"
    /\ retries \in RunRetries
    /\ Idle
    /\ GapIdle

\* parallel_translate_srt up to the creation of the pool: parse the file,
\* build the task list, start with an empty result map.
Start ==
    /\ pc = "start"
    /\ LET blocks == parse_srt(content)
           perLine(v) == [t \in 1..Len(blocks) |->
                             [k \in 1..Len(blocks[t].content) |-> v]]
       IN /\ subtitle_blocks' = blocks
          /\ status' = [t \in 1..Len(blocks) |-> "queued"]
          /\ lineNo' = [t \in 1..Len(blocks) |-> 0]
          /\ attempt' = [t \in 1..Len(blocks) |-> 0]
          /\ translated_lines' = [t \in 1..Len(blocks) |-> <<>>]
          /\ result' = [t \in 1..Len(blocks) |-> <<>>]
          /\ calls' = perLine(0)
          /\ sleeps' = perLine(0)
          /\ outcome' = perLine("none")
          /\ log' = <<LogRec("processes", num_processes, 0),
                      LogRec("found", Len(blocks), Len(blocks))>>
    /\ pc' = "pool"
    /\ UNCHANGED <<gapvars, content, retries, num_processes, provider, outqueue,
                   translated_blocks, received, loop_i, outfile, written>>

-----------------------------------------------------------------------------
(* The pool: Pool(processes=num_processes) and imap_unordered *)

\* A process per task: the pool size is not respected.
WorkerPerTask == Cardinality(Running) < total_blocks

\* A pool process is free to take the next task.
WorkerFree == Cardinality(Running) < num_processes

\* Tasks are handed to the pool processes in submission order.
NextTask == CHOOSE t \in Queued : \A u \in Queued : t <= u

\* A pool process takes the next task and enters translate_block.
StartJob ==
    /\ pc = "pool"
    /\ Queued # {}
    /\ WorkerFree
    /\ status' = [status EXCEPT ![NextTask] = "running"]
    /\ lineNo' = [lineNo EXCEPT ![NextTask] = 1]
    /\ UNCHANGED <<gapvars, content, retries, num_processes, provider, pc, subtitle_blocks,
                   attempt, translated_lines, result, calls, sleeps, outcome, outqueue,
                   translated_blocks, received, loop_i, outfile, written, log>>

-----------------------------------------------------------------------------
(* translate_block, one step per content line or provider call *)

\* The for loop over range(retries) has an iteration left.
HasAttempt(t) == attempt[t] < retries

\* Sleep after every failed attempt, the last one included.
MayRetryAlways(t) == attempt[t] < retries

\* The failed attempt is not the last one: sleep and try again.
MayRetry(t) == attempt[t] < retries - 1

\* What is appended when every attempt failed.
Fallback(line) == line \o <<NL>>

NextLine(t) ==
    /\ lineNo' = [lineNo EXCEPT ![t] = @ + 1]
    /\ attempt' = [attempt EXCEPT ![t] = 0]

JobFrame == UNCHANGED <<gapvars, content, retries, num_processes, provider, pc, subtitle_blocks,
                        status, result, outqueue, translated_blocks, received, loop_i,
                        outfile, written, log>>

\* An empty line (after strip) is answered by '\n' without a provider call.
BlankLine(t) ==
    /\ AtLine(t)
    /\ CurLine(t) = <<>>
    /\ translated_lines' = [translated_lines EXCEPT ![t] = Append(@, <<NL>>)]
    /\ outcome' = [outcome EXCEPT ![t][lineNo[t]] = "blank"]
    /\ NextLine(t)
    /\ UNCHANGED <<calls, sleeps>>
    /\ JobFrame

\* A non-empty line when range(retries) is empty: the loop body never runs
\* and nothing is appended for the line.
NoAttempt(t) ==
    /\ AtLine(t)
    /\ CurLine(t) # <<>>
    /\ ~HasAttempt(t)
    /\ outcome' = [outcome EXCEPT ![t][lineNo[t]] = "dropped"]
    /\ NextLine(t)
    /\ UNCHANGED <<translated_lines, calls, sleeps>>
    /\ JobFrame

\* translator.translate answers: append the translation and break.
TranslateOk(t) ==
    /\ AtLine(t)
    /\ CurLine(t) # <<>>
    /\ HasAttempt(t)
    /\ calls' = [calls EXCEPT ![t][lineNo[t]] = @ + 1]
    /\ translated_lines' = [translated_lines EXCEPT ![t] = Append(@, Translate(CurLine(t)) \o <<NL>>)]
    /\ outcome' = [outcome EXCEPT ![t][lineNo[t]] = "translated"]
    /\ NextLine(t)
    /\ UNCHANGED sleeps
    /\ JobFrame

\* Abort mode: after the last attempt the exception leaves the job and,
\* through imap_unordered, the run.
TranslateFailAborts(t) ==
    /\ AtLine(t)
    /\ CurLine(t) # <<>>
    /\ HasAttempt(t)
    /\ calls' = [calls EXCEPT ![t][lineNo[t]] = @ + 1]
    /\ IF MayRetry(t)
       THEN /\ sleeps' = [sleeps EXCEPT ![t][lineNo[t]] = @ + 1]
            /\ attempt' = [attempt EXCEPT ![t] = @ + 1]
            /\ UNCHANGED <<translated_lines, outcome, lineNo, pc>>
       ELSE /\ outcome' = [outcome EXCEPT ![t][lineNo[t]] = "fallback"]
            /\ pc' = "crashed"
            /\ UNCHANGED <<translated_lines, sleeps, lineNo, attempt>>
    /\ UNCHANGED <<gapvars, content, retries, num_processes, provider, subtitle_blocks,
                   status, result, outqueue, translated_blocks, received, loop_i,
                   outfile, written, log>>

\* translator.translate raises: sleep and go to the next attempt, or, on
\* the last attempt, append the original line.
TranslateFail(t) ==
    /\ AtLine(t)
    /\ CurLine(t) # <<>>
    /\ HasAttempt(t)
    /\ calls' = [calls EXCEPT ![t][lineNo[t]] = @ + 1]
    /\ IF MayRetry(t)
       THEN /\ sleeps' = [sleeps EXCEPT ![t][lineNo[t]] = @ + 1]
            /\ attempt' = [attempt EXCEPT ![t] = @ + 1]
            /\ UNCHANGED <<translated_lines, outcome, lineNo>>
       ELSE /\ translated_lines' = [translated_lines EXCEPT ![t] = Append(@, Fallback(CurLine(t)))]
            /\ outcome' = [outcome EXCEPT ![t][lineNo[t]] = "fallback"]
            /\ NextLine(t)
            /\ UNCHANGED sleeps
    /\ JobFrame

\* The time range goes through the provider with the content.
ReturnedBlockTimeRangeTranslated(block, lines) ==
    [block EXCEPT !.content = lines, !.timestamp = Translate(@)]

\* The block translate_block returns: block.content = translated_lines.
ReturnedBlock(block, lines) == [block EXCEPT !.content = lines]

\* The key translate_block returns the block under.
ReturnedKey(block) == block.index

\* End of translate_block: the pair (block.index, block) goes back to the
\* main process.
FinishJob(t) ==
    /\ status[t] = "running"
    /\ lineNo[t] > Len(subtitle_blocks[t].content)
    /\ result' = [result EXCEPT ![t] =
                     <<ReturnedKey(ReturnedBlock(subtitle_blocks[t], translated_lines[t])),
                       ReturnedBlock(subtitle_blocks[t], translated_lines[t])>>]
    /\ status' = [status EXCEPT ![t] = "finished"]
    /\ outqueue' = Append(outqueue, t)
    /\ UNCHANGED <<gapvars, content, retries, num_processes, provider, pc, subtitle_blocks,
                   lineNo, attempt, translated_lines, calls, sleeps, outcome,
                   translated_blocks, received, loop_i, outfile, written, log>>

-----------------------------------------------------------------------------
(* parallel_translate_srt: the loop over imap_unordered and the reassembly *)

\* d.setdefault(index, block): the first block stored under an index stays.
StoreKeepFirst(d, index, block) ==
    [k \in DOMAIN d \cup {index} |-> IF k \in DOMAIN d THEN d[k] ELSE block]

\* translated_blocks[index] = block
Store(d, index, block) ==
    [k \in DOMAIN d \cup {index} |-> IF k = index THEN block ELSE d[k]]

\* One iteration of the loop over imap_unordered.
Receive ==
    /\ pc = "pool"
    /\ outqueue # <<>>
    /\ LET t == Head(outqueue)
           i == Len(received)
       IN /\ translated_blocks' = Store(translated_blocks, result[t][1], result[t][2])
          /\ received' = Append(received, t)
          /\ status' = [status EXCEPT ![t] = "received"]
          /\ log' = IF (i + 1) % ProgressEvery = 0 \/ (i + 1) = total_blocks
                    THEN Append(log, LogRec("progress", i + 1, total_blocks))
                    ELSE log
    /\ outqueue' = Tail(outqueue)
    /\ UNCHANGED <<gapvars, content, retries, num_processes, provider, pc, subtitle_blocks,
                   lineNo, attempt, translated_lines, result, calls, sleeps, outcome,
                   loop_i, outfile, written>>

SetMin(S) == CHOOSE x \in S : \A y \in S : x <= y
SetMax(S) == CHOOSE x \in S : \A y \in S : x >= y

\* The loop started at 1, as for a numbering that begins with 1.
FirstIndexFromOne(d) == IF SetMin(DOMAIN d) < 1 THEN 1 ELSE SetMin(DOMAIN d)

\* First value of the reassembly loop: min(translated_blocks.keys())
FirstIndex(d) == SetMin(DOMAIN d)
\* Last value of the reassembly loop: max(translated_blocks.keys())
LastIndex(d) == SetMax(DOMAIN d)

\* The loop over the results is left after the first result.
OpenOutputEarly ==
    /\ pc = "pool"
    /\ Len(received) >= 1 \/ total_blocks = 0
    /\ IF DOMAIN translated_blocks = {}
       THEN pc' = "crashed" /\ UNCHANGED loop_i
       ELSE pc' = "write" /\ loop_i' = FirstIndex(translated_blocks)
    /\ UNCHANGED <<gapvars, content, retries, num_processes, provider, subtitle_blocks, status,
                   lineNo, attempt, translated_lines, result, calls, sleeps, outcome,
                   outqueue, translated_blocks, received, outfile, written, log>>

\* The iterator is exhausted, the pool is left and the output file opened;
\* min() of an empty dict raises ValueError.
OpenOutput ==
    /\ pc = "pool"
    /\ Len(received) = total_blocks
    /\ IF DOMAIN translated_blocks = {}
       THEN pc' = "crashed" /\ UNCHANGED loop_i
       ELSE pc' = "write" /\ loop_i' = FirstIndex(translated_blocks)
    /\ UNCHANGED <<gapvars, content, retries, num_processes, provider, subtitle_blocks, status,
                   lineNo, attempt, translated_lines, result, calls, sleeps, outcome,
                   outqueue, translated_blocks, received, outfile, written, log>>

\* One iteration of: for i in range(min_index, max_index + 1)
WriteStep ==
    /\ pc = "write"
    /\ loop_i <= LastIndex(translated_blocks)
    /\ IF loop_i \in DOMAIN translated_blocks
       THEN /\ outfile' = Append(outfile, BlockStr(translated_blocks[loop_i]))
            /\ written' = Append(written, loop_i)
       ELSE UNCHANGED <<outfile, written>>
    /\ loop_i' = loop_i + 1
    /\ UNCHANGED <<gapvars, content, retries, num_processes, provider, pc, subtitle_blocks, status,
                   lineNo, attempt, translated_lines, result, calls, sleeps, outcome,
                   outqueue, translated_blocks, received, log>>

\* The loop ends, the file is closed and the final message logged.
Finish ==
    /\ pc = "write"
    /\ loop_i > LastIndex(translated_blocks)
    /\ pc' = "done"
    /\ log' = Append(log, LogRec("done", total_blocks, total_blocks))
    /\ UNCHANGED <<gapvars, content, retries, num_processes, provider, subtitle_blocks, status,
                   lineNo, attempt, translated_lines, result, calls, sleeps, outcome,
                   outqueue, translated_blocks, received, loop_i, outfile, written>>

Next ==
    \/ Start
    \/ StartJob
    \/ \E t \in Tasks : BlankLine(t)
    \/ \E t \in Tasks : NoAttempt(t)
    \/ \E t \in Tasks : TranslateOk(t)
    \/ \E t \in Tasks : TranslateFail(t)
    \/ \E t \in Tasks : FinishJob(t)
    \/ Receive
    \/ OpenOutput
    \/ WriteStep
    \/ Finish

Spec == Init /\ [][Next]_vars

-----------------------------------------------------------------------------
(* Vocabulary of the properties *)

Range(f) == {f[k] : k \in DOMAIN f}
ParsedIndices == {subtitle_blocks[t].index : t \in Tasks}
Returned(t) == status[t] \in {"finished", "received"}
StrictlyAscending(q) == \A j, k \in 1..Len(q) : j < k => q[j] < q[k]

\* The job of task t ran out of attempts on some line.
Exhausted(t) == \E k \in DOMAIN outcome[t] : outcome[t][k] = "fallback"
ExhaustedTasks == {t \in Tasks : Exhausted(t)}

RECURSIVE StoreInOrder(_, _)
\* The result map when the results arrive in submission order.
StoreInOrder(d, t) ==
    IF t > total_blocks THEN d
    ELSE StoreInOrder(Store(d, result[t][1], result[t][2]), t + 1)

RECURSIVE Reassemble(_, _)
\* What the reassembly loop writes for the result map d, from index i on.
Reassemble(d, i) ==
    IF i > LastIndex(d) THEN <<>>
    ELSE (IF i \in DOMAIN d THEN <<BlockStr(d[i])>> ELSE <<>>) \o Reassemble(d, i + 1)

-----------------------------------------------------------------------------
(* C1: after a finished run the set of indices written equals the set of   *)
(* indices parse_srt produced, and every parsed block appears in the       *)
(* output: no parsed block is dropped.                                     *)
C1_NoBlockDropped ==
    pc = "done" =>
        /\ Range(written) = ParsedIndices
        /\ \A t \in Tasks : \E k \in 1..Len(outfile) : outfile[k] = BlockStr(result[t][2])

(* C2: the reassembly loop writes in strictly ascending index order, runs  *)
(* from the least to the greatest key, writes exactly the keys of the      *)
(* result map, skips holes without failing, and writes a block of index 0  *)
(* first.                                                                  *)
C2_AscendingRangeWrite ==
    /\ StrictlyAscending(written)
    /\ Len(outfile) = Len(written)
    /\ \A k \in 1..Len(written) :
          /\ written[k] \in DOMAIN translated_blocks
          /\ outfile[k] = BlockStr(translated_blocks[written[k]])
    /\ pc = "write" =>
          /\ loop_i >= FirstIndex(translated_blocks)
          /\ loop_i <= LastIndex(translated_blocks) + 1
          /\ Range(written) = {i \in DOMAIN translated_blocks : i < loop_i}
    /\ pc = "done" =>
          /\ Range(written) = DOMAIN translated_blocks
          /\ (0 \in ParsedIndices =>
                 Len(written) >= 1 /\ written[1] = 0 /\ outfile[1][1] = "0")
    /\ pc = "crashed" => DOMAIN translated_blocks = {}

\* A finished run over keys 0 and 3: index 0 written first, a hole skipped.
C2_Witness ==
    /\ pc = "done"
    /\ Len(written) = 2
    /\ written[1] = 0
    /\ written[2] > 1

(* C3: the serialized output does not depend on the order in which the     *)
(* jobs complete: it is the output of the run in which the results arrive  *)
(* in submission order.                                                    *)
C3_OrderIndependentOutput ==
    pc = "done" => outfile = Reassemble(StoreInOrder([k \in {} |-> 0], 1),
                                         FirstIndex(StoreInOrder([k \in {} |-> 0], 1)))

(* C4: when the provider never answers for a non-empty line, it is called  *)
(* exactly retries times for that line and the line itself (as the job    *)
(* reads it, stripped) is then emitted at the line's position.             *)
C4_RetriesThenOriginalLine ==
    \A t \in Tasks : Returned(t) =>
        \A k \in 1..Len(subtitle_blocks[t].content) :
            LET line == Strip(subtitle_blocks[t].content[k]) IN
            (line # <<>> /\ outcome[t][k] # "translated") =>
                /\ calls[t][k] = retries
                /\ k <= Len(result[t][2].content)
                /\ result[t][2].content[k] = line \o <<NL>>

(* C5: every empty content line is answered by an empty line at the same   *)
(* position without a provider call, and every non-empty line the provider *)
(* answered for is replaced at its position by the translation.            *)
C5_BlankLinesKeepPosition ==
    \A t \in Tasks : Returned(t) =>
        \A k \in 1..Len(subtitle_blocks[t].content) :
            LET line == Strip(subtitle_blocks[t].content[k])
                out == result[t][2].content
            IN /\ line = <<>> =>
                    /\ k <= Len(out)
                    /\ out[k] = <<NL>>
                    /\ calls[t][k] = 0
               /\ (line # <<>> /\ outcome[t][k] = "translated") =>
                    /\ k <= Len(out)
                    /\ out[k] = Translate(line) \o <<NL>>

(* C6: the block a job returns, and the key it is returned under, carry    *)
(* the index and the time range of the parsed block, whatever the provider *)
(* did; so does every entry of the result map.                             *)
C6_IndexTimeRangeUnchanged ==
    /\ \A t \in Tasks : Returned(t) =>
          /\ result[t][1] = subtitle_blocks[t].index
          /\ result[t][2].index = subtitle_blocks[t].index
          /\ result[t][2].timestamp = subtitle_blocks[t].timestamp
    /\ \A i \in DOMAIN translated_blocks :
          /\ translated_blocks[i].index = i
          /\ \E t \in Tasks : /\ subtitle_blocks[t].index = i
                              /\ subtitle_blocks[t].timestamp = translated_blocks[i].timestamp

\* A returned block with a time range, one line that ran out of attempts
\* and one line translated after a failed attempt.
C6_Witness ==
    \E t \in Tasks :
        /\ Returned(t)
        /\ subtitle_blocks[t].timestamp = TimeRange
        /\ \E j, k \in DOMAIN outcome[t] :
              /\ outcome[t][j] = "fallback"
              /\ outcome[t][k] = "translated"
              /\ sleeps[t][k] > 0

\* The content translate_block returns for a block none of whose lines ran
\* out of attempts.
TranslatedContent(block) ==
    [k \in 1..Len(block.content) |->
        IF Strip(block.content[k]) = <<>> THEN <<NL>>
        ELSE Translate(Strip(block.content[k])) \o <<NL>>]

C8_FailureSummary ==
    (pc = "done" /\ ExhaustedTasks # {}) =>
        \E k \in 1..Len(log) :
            /\ log[k].msg = "failures"
            /\ log[k].n = Cardinality(ExhaustedTasks)

\* A block in the index / time-range / content-lines format: a time range
\* and at least one content line, each with text and no surrounding blanks.
WellFormed(block) ==
    /\ block.timestamp # <<>>
    /\ block.content # <<>>
    /\ \A k \in 1..Len(block.content) :
          /\ Strip(block.content[k]) # <<>>
          /\ Strip(block.content[k]) \o <<NL>> = block.content[k]

(* C9: under the identity provider, parsing the serialization of the block *)
(* a job returns for a well-formed block gives back the parsed block: same *)
(* index, same time range, same content lines.                             *)
C9_RoundTrip ==
    \A t \in Tasks :
        (Returned(t) /\ provider = "identity" /\ retries >= 1
            /\ WellFormed(subtitle_blocks[t])) =>
            parse_srt(ReadLines(BlockStr(result[t][2]), <<>>)) = <<subtitle_blocks[t]>>

(* C10: at every moment the number of jobs executing is at most the        *)
(* number of pool processes.                                               *)
C10_BoundedConcurrency == Cardinality(Running) <= num_processes

\* Every pool process is busy while a task still waits.
C10_Witness ==
    /\ num_processes = 2
    /\ Cardinality(Running) = num_processes
    /\ Queued # {}

-----------------------------------------------------------------------------
(* SilentGapLocator.py *)

RECURSIVE Split(_, _)
\* s.split(sep): the parts between the occurrences of sep, found from the left
Split(s, sep) ==
    LET found == {k \in 1..(Len(s) - Len(sep) + 1) : SubSeq(s, k, k + Len(sep) - 1) = sep}
    IN IF found = {} THEN <<s>>
       ELSE <<SubSeq(s, 1, SetMin(found) - 1)>>
            \o Split(SubSeq(s, SetMin(found) + Len(sep), Len(s)), sep)

SpacedArrow == <<SP, "-", "-", ">", SP>>

\* One iteration of the loop of parse_srt_timestamps; unpacking anything
\* but two parts raises ValueError, which ends the function.
TimestampLine(acc, line) ==
    IF acc.raised \/ ~HasArrow(line) THEN acc
    ELSE LET parts == Split(line, SpacedArrow) IN
         IF Len(parts) # 2 THEN [acc EXCEPT !.raised = TRUE]
         ELSE [acc EXCEPT !.timestamps = Append(@, <<Strip(parts[1]), Strip(parts[2])>>)]

RECURSIVE TimestampLoop(_, _)
TimestampLoop(acc, lines) ==
    IF lines = <<>> THEN acc
    ELSE TimestampLoop(TimestampLine(acc, Head(lines)), Tail(lines))

parse_srt_timestamps(text) ==
    TimestampLoop([raised |-> FALSE, timestamps |-> <<>>], Split(text, <<NL>>))

\* A field of the time format: one to most digits, of value up to top.
IsField(f, most, top) ==
    /\ Len(f) \in 1..most
    /\ \A k \in 1..Len(f) : f[k] \in DigitSet
    /\ ParseInt(f) <= top

RECURSIVE Pow10(_)
Pow10(n) == IF n = 0 THEN 1 ELSE 10 * Pow10(n - 1)

\* strptime raised ValueError
Malformed == -1

\* datetime.strptime(s, "%H:%M:%S,%f"), as microseconds since midnight of
\* the default date; %f takes one to six digits, read as a decimal fraction.
StrpTime(s) ==
    LET hms == Split(s, <<":">>)
        sf == IF Len(hms) = 3 THEN Split(hms[3], <<",">>) ELSE <<>>
    IN IF /\ Len(hms) = 3
          /\ Len(sf) = 2
          /\ IsField(hms[1], 2, 23)
          /\ IsField(hms[2], 2, 59)
          /\ IsField(sf[1], 2, 59)
          /\ IsField(sf[2], 6, MicrosPerSecond - 1)
       THEN ((ParseInt(hms[1]) * 60 + ParseInt(hms[2])) * 60 + ParseInt(sf[1]))
                * MicrosPerSecond
            + ParseInt(sf[2]) * Pow10(6 - Len(sf[2]))
       ELSE Malformed

\* gap >= threshold_seconds
GapReaches(gap, threshold) == gap >= threshold * MicrosPerSecond

\* gap > threshold_seconds, with gap in microseconds
GapExceeds(gap, threshold) == gap > threshold * MicrosPerSecond

\* Time strings of the generated documents: 5 s, 20 s, and 20 s written
\* with a full stop before the milliseconds.
T05 == <<"0", "0", ":", "0", "0", ":", "0", "5", ",", "0", "0", "0">>
T20 == <<"0", "0", ":", "0", "0", ":", "2", "0", ",", "0", "0", "0">>
T20Dot == <<"0", "0", ":", "0", "0", ":", "2", "0", ".", "0", "0", "0">>
TimeStrings == {T05, T20, T20Dot}

\* Time-range lines: every pair of time strings around " --> ", and one
\* line with the arrow but without the spaces around it.
TimeLines ==
    {a \o SpacedArrow \o b : a, b \in TimeStrings} \cup {T05 \o <<"-", "-", ">">> \o T20}

\* An entry of a document: index line, time-range line, text line, empty line.
SrtEntry(line) == <<"1", NL>> \o line \o <<NL, "a", NL, NL>>

\* Documents of up to MaxEntries entries.
SrtTexts == {Join([k \in 1..Len(ls) |-> SrtEntry(ls[k])]) :
                ls \in UNION {[1..m -> TimeLines] : m \in 0..MaxEntries}}

Thresholds == {DefaultThreshold, 15, 20}
\* The gap analysis of a document, with the default or a given threshold;
\* the translation run is not in use.
InitGap ==
    /\ srt_text \in SrtTexts
    /\ threshold_seconds \in Thresholds
    /\ gpc = "parse"
    /\ timestamps = <<>>
    /\ gap_i = 0
    /\ gaps = <<>>
    /\ content = <<>>
    /\ num_processes = 1
    /\ provider = "stub"
    /\ retries = 0
    /\ Idle

\* timestamps = parse_srt_timestamps(srt_content), then the call of
\* calculate_gaps up to its loop.
GapParse ==
    /\ gpc = "parse"
    /\ LET parsed == parse_srt_timestamps(srt_text) IN
       IF parsed.raised
       THEN gpc' = "raised" /\ UNCHANGED timestamps
       ELSE gpc' = "scan" /\ timestamps' = parsed.timestamps
    /\ UNCHANGED <<runvars, srt_text, threshold_seconds, gap_i, gaps>>

\* The entries compared by the iteration i of the loop of calculate_gaps.
EndTime == StrpTime(timestamps[gap_i + 1][2])
NextStartTime == StrpTime(timestamps[gap_i + 2][1])

\* One iteration of the loop: both time strings are read, and the pair is
\* recorded when its gap exceeds the threshold.
GapStep ==
    /\ gpc = "scan"
    /\ gap_i < Len(timestamps) - 1
    /\ EndTime # Malformed /\ NextStartTime # Malformed
    /\ gaps' = IF GapExceeds(NextStartTime - EndTime, threshold_seconds)
               THEN Append(gaps, <<timestamps[gap_i + 1][2], timestamps[gap_i + 2][1],
                                   NextStartTime - EndTime>>)
               ELSE gaps
    /\ gap_i' = gap_i + 1
    /\ UNCHANGED <<runvars, srt_text, threshold_seconds, gpc, timestamps>>

\* strptime raises ValueError: calculate_gaps is left without a result.
GapRaise ==
    /\ gpc = "scan"
    /\ gap_i < Len(timestamps) - 1
    /\ EndTime = Malformed \/ NextStartTime = Malformed
    /\ gpc' = "raised"
    /\ UNCHANGED <<runvars, srt_text, threshold_seconds, timestamps, gap_i, gaps>>

\* return gaps
GapReturn ==
    /\ gpc = "scan"
    /\ gap_i >= Len(timestamps) - 1
    /\ gpc' = "returned"
    /\ UNCHANGED <<runvars, srt_text, threshold_seconds, timestamps, gap_i, gaps>>

NextGap ==
    \/ GapParse
    \/ GapStep
    \/ GapRaise
    \/ GapReturn

SpecGap == InitGap /\ [][NextGap]_vars


-----------------------------------------------------------------------------
\* Two parsed blocks share an index.
DuplicateIndices ==
    \E t, u \in Tasks : t # u /\ subtitle_blocks[t].index = subtitle_blocks[u].index

\* An index between the least and the greatest parsed index is missing.
MissingIndices ==
    \E i \in SetMin(ParsedIndices)..SetMax(ParsedIndices) : i \notin ParsedIndices

(* C11: with fewer jobs than pool processes, with duplicate indices or     *)
(* with missing indices, the run does not fail, every submitted job is     *)
(* executed and its result received before the output is written, and the  *)
(* finished run has written a block for every index.                       *)
C11_ToleratesAnomalies ==
    (pc # "start" /\ (total_blocks < num_processes
                      \/ (Tasks # {} /\ (DuplicateIndices \/ MissingIndices)))) =>
        /\ pc # "crashed"
        /\ pc \in {"write", "done"} => \A t \in Tasks : status[t] = "received"
        /\ pc = "done" => Range(written) = ParsedIndices

(* C14: no block is written, and the reassembly loop is not entered,       *)
(* before the result of every submitted job has been received by the main  *)
(* loop and stored in the result map.                                      *)
C14_ReassemblyAfterAllJobs ==
    (pc \in {"write", "done"} \/ written # <<>> \/ outfile # <<>>) =>
        /\ outqueue = <<>>
        /\ \A t \in Tasks :
              /\ status[t] = "received"
              /\ t \in Range(received)
              /\ subtitle_blocks[t].index \in DOMAIN translated_blocks

\* A block has been written in a run of three jobs whose results did not
\* arrive in submission order.
C14_Witness ==
    /\ written # <<>>
    /\ total_blocks = 3
    /\ received # <<1, 2, 3>>

\* A step leaves the outcome and the retry counters of every settled line alone.
SettledLinesKeepCounters ==
    \A t \in Tasks : \A k \in DOMAIN outcome[t] :
        outcome[t][k] # "none" =>
            /\ outcome'[t][k] = outcome[t][k]
            /\ calls'[t][k] = calls[t][k]
            /\ sleeps'[t][k] = sleeps[t][k]

\* Counters of the retry loop, line by line.
RetryCounters ==
    \A t \in Tasks : \A k \in DOMAIN outcome[t] :
        /\ calls[t][k] <= retries
        /\ sleeps[t][k] <= calls[t][k]
        /\ calls[t][k] > 0 => sleeps[t][k] <= retries - 1
        /\ outcome[t][k] = "translated" =>
              /\ calls[t][k] >= 1
              /\ sleeps[t][k] = calls[t][k] - 1
              /\ Returned(t) =>
                    /\ Len(result[t][2].content) = Len(subtitle_blocks[t].content)
                    /\ result[t][2].content[k] =
                          Translate(Strip(subtitle_blocks[t].content[k])) \o <<NL>>
        /\ outcome[t][k] = "fallback" =>
              /\ calls[t][k] = retries
              /\ sleeps[t][k] = retries - 1

(* C17: a line whose provider call first answers on attempt k has had the  *)
(* provider called exactly k times and the delay slept exactly k - 1       *)
(* times (never after the answer, never after the last failed attempt),    *)
(* neither counter changes once the line is settled, and exactly one line, *)
(* the translation, is emitted for it at its position.                     *)
C17_RetryLoopCounts == [](RetryCounters) /\ [][SettledLinesKeepCounters]_vars

\* A returned block with a line translated on the second attempt, after
\* one sleep.
C17_Witness ==
    \E t \in Tasks : \E k \in DOMAIN outcome[t] :
        /\ Returned(t)
        /\ outcome[t][k] = "translated"
        /\ calls[t][k] = 2
        /\ sleeps[t][k] = 1

\* Positions in received of the results stored under index i.
ReceivedAt(i) == {k \in 1..Len(received) : subtitle_blocks[received[k]].index = i}

(* C18: the result map holds, for every index received, exactly the block  *)
(* of the job of that index that completed last, and the finished run has  *)
(* written one block per distinct parsed index.                            *)
C18_LastCompletedWins ==
    /\ DOMAIN translated_blocks = {subtitle_blocks[t].index : t \in Range(received)}
    /\ \A i \in DOMAIN translated_blocks :
          translated_blocks[i] = result[received[SetMax(ReceivedAt(i))]][2]
    /\ pc = "done" =>
          /\ Len(written) = Cardinality(ParsedIndices)
          /\ \A k \in 1..Len(written) :
                outfile[k] = BlockStr(result[received[SetMax(ReceivedAt(written[k]))]][2])

\* A finished run in which the block written for a shared index is the one
\* that comes first in the document, because its job completed last.
C18_Witness ==
    /\ pc = "done"
    /\ \E t, u \in Tasks :
          /\ t < u
          /\ subtitle_blocks[t].index = subtitle_blocks[u].index
          /\ result[t][2] # result[u][2]
          /\ translated_blocks[subtitle_blocks[t].index] = result[t][2]

(* C19: for every value of retries, 0 included, the returned block has as  *)
(* many content lines as the parsed block, each the translation, the       *)
(* original text or an empty line for the line at the same position.       *)
C19_LineCountPreserved ==
    \A t \in Tasks : Returned(t) =>
        /\ Len(result[t][2].content) = Len(subtitle_blocks[t].content)
        /\ \A k \in 1..Len(subtitle_blocks[t].content) :
              LET line == Strip(subtitle_blocks[t].content[k]) IN
              result[t][2].content[k] \in
                  {Translate(line) \o <<NL>>, line \o <<NL>>, <<NL>>}

(* C20: a run over a document that yields no block ends the pool phase     *)
(* with an empty result map and then finishes without failing.             *)
C20_EmptyRunCompletes ==
    (pc # "start" /\ total_blocks = 0) =>
        /\ DOMAIN translated_blocks = {}
        /\ pc # "crashed"

-----------------------------------------------------------------------------
\* Every provider call returns and the pool runs every job it holds: a step
\* that stays possible is eventually taken.
FairSpec == Spec /\ WF_vars(Next)

SpecParse == InitParse /\ [][Next]_vars

\* No line has had more provider calls than retries.
CallsWithinRetries ==
    \A t \in Tasks : \A k \in DOMAIN calls[t] : calls[t][k] <= retries

(* C15: under fair scheduling every job eventually returns, with at most   *)
(* retries provider calls for each of its lines, and the run eventually    *)
(* finishes the reassembly, whatever the provider calls answer.            *)
C15_ForwardProgress ==
    /\ [](CallsWithinRetries)
    /\ <>(pc # "start" /\ \A t \in Tasks : Returned(t))
    /\ <>(pc = "done")

-----------------------------------------------------------------------------
\* The line of the input file at position k, as parse_srt sees it.
FileLine(k) == RStripNL(content[k])

\* Positions of the lines made of digits only.
IndexPositions == {k \in 1..Len(content) : IsIndexLine(FileLine(k))}

\* The n-th least element of a set of numbers.
Nth(S, n) == CHOOSE p \in S : Cardinality({q \in S : q < p}) = n - 1

\* Positions of the lines that belong to the j-th block: after its index
\* line and before the next index line or the end of the file.
BlockPositions(j) ==
    LET first == Nth(IndexPositions, j)
        last == IF j < Cardinality(IndexPositions)
                THEN Nth(IndexPositions, j + 1) - 1 ELSE Len(content)
    IN (first + 1)..last

\* The block expected for the j-th index line.
ExpectedBlock(j) ==
    LET arrows == {k \in BlockPositions(j) : HasArrow(FileLine(k))}
        others == BlockPositions(j) \ arrows
    IN SubtitleBlock(ParseInt(FileLine(Nth(IndexPositions, j))),
                     IF arrows = {} THEN <<>> ELSE FileLine(SetMax(arrows)),
                     [n \in 1..Cardinality(others) |-> FileLine(Nth(others, n)) \o <<NL>>])

(* C16: parse_srt yields exactly one block per line made of digits only,   *)
(* in input order; the block has the number of its index line, the (last)  *)
(* line with '-->' that follows it as time range, and every other line up  *)
(* to the next index line or the end of the file as content, in order and  *)
(* without the time-range lines; lines before the first index line are in  *)
(* no block, and the block open at the end of the file is in the result.   *)
C16_ParseAccumulator ==
    pc # "start" =>
        /\ Len(subtitle_blocks) = Cardinality(IndexPositions)
        /\ \A j \in 1..Len(subtitle_blocks) : subtitle_blocks[j] = ExpectedBlock(j)

\* A parsed document that begins with a line outside every block, and holds
\* a block with a time-range line followed by a last block.
C16_Witness ==
    /\ pc # "start"
    /\ Len(content) = MaxDocLines
    /\ 1 \notin IndexPositions
    /\ Len(subtitle_blocks) = 2
    /\ subtitle_blocks[1].timestamp = TimeRange
    /\ subtitle_blocks[1].content = <<>>

-----------------------------------------------------------------------------
\* The gap of the k-th adjacent pair, in microseconds.
PairGap(k) == StrpTime(timestamps[k + 1][1]) - StrpTime(timestamps[k][2])

\* Both time strings of the k-th adjacent pair can be read.
PairReadable(k) ==
    StrpTime(timestamps[k][2]) # Malformed /\ StrpTime(timestamps[k + 1][1]) # Malformed

\* The records of the pairs in P, in input order.
GapRecords(P) ==
    [n \in 1..Cardinality(P) |->
        LET k == Nth(P, n) IN <<timestamps[k][2], timestamps[k + 1][1], PairGap(k)>>]

\* The gaps expected of the first n adjacent pairs.
ExpectedGaps(n) ==
    GapRecords({k \in 1..n : PairGap(k) > threshold_seconds * MicrosPerSecond})

(* C12: calculate_gaps returns, in input order, one record (previous end,  *)
(* next start, duration) for each adjacent pair whose next start minus     *)
(* previous end is strictly greater than the threshold, and no other       *)
(* record; the same holds of the pairs compared so far during the scan.    *)
(* For an end of 00:00:05,000 followed by a start of 00:00:20,000 and the  *)
(* threshold 10 the record is (00:00:05,000, 00:00:20,000, 15 s).          *)
C12_GapsExceedThreshold ==
    /\ gpc = "scan" => gaps = ExpectedGaps(gap_i)
    /\ gpc = "returned" =>
          /\ gaps = ExpectedGaps(Len(timestamps) - 1)
          /\ (/\ threshold_seconds = DefaultThreshold
              /\ Len(timestamps) = 2
              /\ timestamps[1][2] = T05
              /\ timestamps[2][1] = T20)
             => gaps = <<<<T05, T20, 15 * MicrosPerSecond>>>>

\* The result for three entries with the default threshold: the gap of
\* 15 s between the first two is reported, the negative gap between the
\* last two is not.
C12_Witness ==
    /\ gpc = "returned"
    /\ threshold_seconds = DefaultThreshold
    /\ Len(timestamps) = 3
    /\ timestamps[1][2] = T05
    /\ timestamps[2] = <<T20, T20>>
    /\ timestamps[3][1] = T05
    /\ gaps = <<<<T05, T20, 15 * MicrosPerSecond>>>>

(* C13: when calculate_gaps is given two entries or more, a time string    *)
(* that cannot be read does not end the analysis: the analysis returns a   *)
(* result, and the result holds the gap of every adjacent pair whose two   *)
(* time strings can be read.                                               *)
C13_MalformedPairOnly ==
    Len(timestamps) >= 2 =>
        /\ gpc # "raised"
        /\ gpc = "returned" =>
              gaps = GapRecords({k \in 1..(Len(timestamps) - 1) :
                                   /\ PairReadable(k)
                                   /\ PairGap(k) > threshold_seconds * MicrosPerSecond})

====
